---- MODULE Spec2Model ----
(***************************************************************************)
(* Model of src/simulation.py: PredatorPreySimulation.                     *)
(*                                                                         *)
(* Lengths are fixed-point numbers in hundredths of an arena unit, so that *)
(* every constant of the source is an integer (0.05 -> 5, 1.0 -> 100,     *)
(* 0.5 -> 50).  A point or a vector is a pair <<x, y>>.                    *)
(* np.linalg.norm is carried by its square, which is exact on integers:    *)
(* for nonnegative a and b, sqrt(a) < b iff a < b*b, and sqrt(a) = 0 iff   *)
(* a = 0.  v / norm(v) * s is the real quotient rounded to the nearest     *)
(* hundredth in each coordinate.                                           *)
(***************************************************************************)
EXTENDS Integers, Sequences, FiniteSets, TLC

VARIABLES num_agents, safe_distance, hunters, prey,
          hunter_patches, prey_patch,
          slider_num_agents, slider_safe_distance,
          fig_open, printed, raised, frame, last

vars == <<num_agents, safe_distance, hunters, prey, hunter_patches, prey_patch,
          slider_num_agents, slider_safe_distance, fig_open, printed, raised,
          frame, last>>

---------------------------------------------------------------------------
(* Program constants, in hundredths.                                       *)

hunter_speed == 5
prey_speed == 3
repulsion_strength == 10
NeighbourRadius == 100
SliderAgentsMin == 1
SliderAgentsMax == 5
SliderSafeMin == 50
SliderSafeMax == 500
UnitLen == 100

(* Bounds of the exploration.                                              *)

MaxFrames == 2
ChaseFrames == 60

(* The points np.random.rand(...) * area_size is sampled from: A, and B    *)
(* and C at 0.9 from A along the two axes (B and C are 1.27 apart).        *)
HunterPoints == {<<500, 500>>, <<590, 500>>}
PreyPoints == {<<500, 500>>, <<545, 560>>}

(* Slider positions of 'Number of Agents' the user is taken to choose from. *)
AgentChoices == {1, 2, 3}

(* Slider positions of 'Safe Distance' the user is taken to choose from,   *)
(* and the safe_distance arguments given to the constructor.               *)
SafeChoices == {50, 75}
SafeArgs == {25}

(* The num_agents arguments given to the constructor: the default, and one *)
(* on each side of the slider's range.                                     *)
AgentArgs == {0, 3, 6}

---------------------------------------------------------------------------
(* Vector arithmetic (numpy broadcasting on 2-vectors).                    *)

Add(p, q) == <<p[1] + q[1], p[2] + q[2]>>
Sub(p, q) == <<p[1] - q[1], p[2] - q[2]>>
NormSq(v) == v[1] * v[1] + v[2] * v[2]

(* The largest c in lo..hi with (2c - 1)^2 * n2 <= 4 * m^2, by bisection:   *)
(* c <= m / sqrt(n2) + 1/2.  lo satisfies it.                               *)
RECURSIVE Nearest(_, _, _, _)
Nearest(lo, hi, m, n2) ==
    IF lo >= hi THEN lo
    ELSE LET mid == (lo + hi + 1) \div 2
         IN IF (2 * mid - 1) * (2 * mid - 1) * n2 <= 4 * m * m
            THEN Nearest(mid, hi, m, n2)
            ELSE Nearest(lo, mid - 1, m, n2)

(* a * s / sqrt(n2) rounded to the nearest integer (halves away from zero), *)
(* for |a| <= sqrt(n2).                                                     *)
RoundQuot(a, s, n2) ==
    IF a < 0 THEN -Nearest(0, s, (-a) * s, n2) ELSE Nearest(0, s, a * s, n2)

(* (v / norm(v)) * s, for v # 0.                                           *)
Scaled(v, s) == <<RoundQuot(v[1], s, NormSq(v)), RoundQuot(v[2], s, NormSq(v))>>


---------------------------------------------------------------------------
(* create_triangle: the polygon is determined by the anchor point and the  *)
(* unit direction it is rotated to, which is what the patch records here.   *)

CreateTriangle(position, direction) ==
    [xy  |-> position,
     dir |-> IF NormSq(direction) = 0 THEN <<UnitLen, 0>>
             ELSE Scaled(direction, UnitLen)]

SliderValueUnclamped(valmin, valmax, valinit) == valinit

(* Slider(ax, label, valmin, valmax, valinit=...): the widget keeps its     *)
(* value inside [valmin, valmax], the initial value included.               *)
SliderValue(valmin, valmax, valinit) ==
    IF valinit < valmin THEN valmin
    ELSE IF valinit > valmax THEN valmax ELSE valinit

(* _initialize_positions: every outcome of the two np.random.rand draws.    *)
InitializePositions(n) ==
    [hunters : [1..n -> HunterPoints], prey : PreyPoints]

(* The patches _setup_plot and _reinitialize_agents create: one per hunter  *)
(* row, facing (1, 1), and one for the prey.                                *)
HunterPatches(n, hs) == [i \in 1..n |-> CreateTriangle(hs[i], <<1, 1>>)]
PreyPatch(p) == CreateTriangle(p, <<1, 1>>)

(* int(self.slider_num_agents.val)                                          *)
NewNumAgents(val) == val

NeedsReinitGrowOnly(new_num_agents, current) == new_num_agents > current

(* new_num_agents != self.num_agents                                        *)
NeedsReinit(new_num_agents, current) == new_num_agents # current

(* np.linalg.norm(self.hunters - self.prey, axis=1), squared.               *)
Distances(hs, p) == [i \in 1..Len(hs) |-> NormSq(Sub(hs[i], p))]

ArgMinLast(d) ==
    CHOOSE i \in 1..Len(d) :
        /\ \A j \in 1..Len(d) : d[i] <= d[j]
        /\ \A j \in (i + 1)..Len(d) : d[j] > d[i]

(* np.argmin: the first index holding the minimum.                          *)
ArgMin(d) ==
    CHOOSE i \in 1..Len(d) :
        /\ \A j \in 1..Len(d) : d[i] <= d[j]
        /\ \A j \in 1..(i - 1) : d[j] > d[i]

CaughtInclusive(d, threshold) ==
    \E i \in 1..Len(d) : d[i] <= threshold * threshold

(* np.min(distances) < self.safe_distance                                   *)
Caught(d, threshold) ==
    \E i \in 1..Len(d) :
        /\ \A j \in 1..Len(d) : d[i] <= d[j]
        /\ d[i] < threshold * threshold

(* x += (v / norm(v)) * speed, guarded by norm(v) != 0.                     *)
Step(x, v, speed) ==
    IF NormSq(v) # 0 THEN Add(x, Scaled(v, speed)) ELSE x

MovePreyAtHunterSpeed(p, hs, closest_idx) ==
    Step(p, Sub(p, hs[closest_idx]), hunter_speed)

(* Prey behaviour: move away from the closest hunter.                       *)
MovePrey(p, hs, closest_idx) == Step(p, Sub(p, hs[closest_idx]), prey_speed)

(* The inner loop over j, on the array as it stands: hunters[i] is updated  *)
(* in place, so each j reads the hunters[i] left by the previous j.         *)
RECURSIVE Repel(_, _, _)
Repel(hs, i, j) ==
    IF j > Len(hs) THEN hs
    ELSE LET diff == Sub(hs[i], hs[j])
             d2 == NormSq(diff)
         IN IF i # j /\ d2 < NeighbourRadius * NeighbourRadius /\ d2 # 0
            THEN Repel([hs EXCEPT ![i] = Add(hs[i], Scaled(diff, repulsion_strength))],
                       i, j + 1)
            ELSE Repel(hs, i, j + 1)

(* The outer loop over i: seek the prey, then repel, row by row in place.   *)
RECURSIVE MoveHunters(_, _, _)
MoveHunters(hs, p, i) ==
    IF i > Len(hs) THEN hs
    ELSE MoveHunters(
             Repel([hs EXCEPT ![i] = Step(hs[i], Sub(p, hs[i]), hunter_speed)], i, 1),
             p, i + 1)

(* agent_direction / flee_direction: normalised, (1, 0) when zero.          *)
Heading(v) == IF NormSq(v) = 0 THEN <<1, 0>> ELSE Scaled(v, UnitLen)

PltCloseNoop(open) == open

(* plt.close(): the figure is gone, and with it the animation's timer.      *)
PltClose(open) == FALSE

(* What the latest update() call read and decided, kept for the properties. *)
NoStep == [stepped |-> FALSE, num_before |-> 0, safe_before |-> 0, val |-> 0, slider_safe |-> 0, resized |-> FALSE,
           prey_before |-> <<0, 0>>, hunters0 |-> <<>>, prey0 |-> <<0, 0>>,
           closest_idx |-> 0, fired |-> FALSE]

---------------------------------------------------------------------------
(* __init__(num_agents, safe_distance): positions, patches, sliders.        *)

Init ==
    \E n \in AgentArgs, sd \in SafeArgs :
    \E pos \in InitializePositions(n) :
        /\ num_agents = n
        /\ safe_distance = sd
        /\ hunters = pos.hunters
        /\ prey = pos.prey
        /\ hunter_patches = HunterPatches(n, pos.hunters)
        /\ prey_patch = PreyPatch(pos.prey)
        /\ slider_num_agents = SliderValue(SliderAgentsMin, SliderAgentsMax, n)
        /\ slider_safe_distance = SliderValue(SliderSafeMin, SliderSafeMax, sd)
        /\ fig_open = TRUE
        /\ printed = 0
        /\ raised = FALSE
        /\ frame = 0
        /\ last = NoStep

(* The user drags a slider while the figure is shown.                       *)
MoveAgentsSlider ==
    /\ fig_open /\ ~raised
    /\ \E v \in AgentChoices :
        /\ v # slider_num_agents
        /\ slider_num_agents' = v
    /\ UNCHANGED <<num_agents, safe_distance, hunters, prey, hunter_patches,
                   prey_patch, slider_safe_distance, fig_open, printed, raised,
                   frame, last>>

MoveSafeSlider ==
    /\ fig_open /\ ~raised
    /\ \E v \in SafeChoices :
        /\ v # slider_safe_distance
        /\ slider_safe_distance' = v
    /\ UNCHANGED <<num_agents, safe_distance, hunters, prey, hunter_patches,
                   prey_patch, slider_num_agents, fig_open, printed, raised,
                   frame, last>>

(* update(frame), called by the animation while the figure is open.  The   *)
(* locals of the method are bound one after the other, in program order.    *)
Update(max_frames) ==
    /\ fig_open /\ ~raised
    /\ frame < max_frames
    /\ frame' = frame + 1
    /\ UNCHANGED <<slider_num_agents, slider_safe_distance>>
    /\ \E new_num_agents \in {NewNumAgents(slider_num_agents)} :
       \E reinit \in {NeedsReinit(new_num_agents, num_agents)} :
       \E n \in {IF reinit THEN new_num_agents ELSE num_agents} :
       \E pos \in IF reinit THEN InitializePositions(n)
                  ELSE {[hunters |-> hunters, prey |-> prey]} :
       \E patches0 \in {IF reinit THEN HunterPatches(n, pos.hunters)
                        ELSE hunter_patches} :
          /\ num_agents' = n
          /\ safe_distance' = slider_safe_distance
          /\ IF Len(pos.hunters) = 0
             THEN \* np.argmin of an empty array raises ValueError
                  /\ raised' = TRUE
                  /\ hunters' = pos.hunters
                  /\ prey' = pos.prey
                  /\ hunter_patches' = patches0
                  /\ prey_patch' = IF reinit THEN PreyPatch(pos.prey) ELSE prey_patch
                  /\ UNCHANGED <<fig_open, printed>>
                  /\ last' = [NoStep EXCEPT !.val = slider_num_agents]
             ELSE \E distances \in {Distances(pos.hunters, pos.prey)} :
                  \E closest_idx \in {ArgMin(distances)} :
                  \E p1 \in {MovePrey(pos.prey, pos.hunters, closest_idx)} :
                  \E hs1 \in {MoveHunters(pos.hunters, p1, 1)} :
                  \E fired \in {Caught(distances, slider_safe_distance)} :
                     /\ raised' = FALSE
                     /\ hunters' = hs1
                     /\ prey' = p1
                     /\ hunter_patches' =
                            [i \in 1..Len(patches0) |->
                                IF i <= n
                                THEN CreateTriangle(hs1[i], Heading(Sub(p1, hs1[i])))
                                ELSE patches0[i]]
                     /\ prey_patch' =
                            CreateTriangle(p1, Heading(Sub(hs1[closest_idx], p1)))
                     /\ printed' = IF fired THEN printed + 1 ELSE printed
                     /\ fig_open' = IF fired THEN PltClose(fig_open) ELSE fig_open
                     /\ last' = [stepped |-> TRUE,
                                 num_before |-> num_agents,
                                 safe_before |-> safe_distance,
                                 val |-> slider_num_agents,
                                 slider_safe |-> slider_safe_distance,
                                 resized |-> reinit,
                                 prey_before |-> prey,
                                 hunters0 |-> pos.hunters,
                                 prey0 |-> pos.prey,
                                 closest_idx |-> closest_idx,
                                 fired |-> fired]

Frame == Update(MaxFrames)

Next == Frame \/ MoveAgentsSlider \/ MoveSafeSlider

Spec == Init /\ [][Next]_vars

---------------------------------------------------------------------------
(* One hunter chasing, the sliders left alone.                              *)

ChasePreyPoints == PreyPoints \cup {<<620, 600>>}
ChaseSafeArgs == {25, 60, 75}

InitChase ==
    \E sd \in ChaseSafeArgs, h \in HunterPoints, p \in ChasePreyPoints :
        /\ num_agents = 1
        /\ safe_distance = sd
        /\ hunters = <<h>>
        /\ prey = p
        /\ hunter_patches = HunterPatches(1, <<h>>)
        /\ prey_patch = PreyPatch(p)
        /\ slider_num_agents = SliderValue(SliderAgentsMin, SliderAgentsMax, 1)
        /\ slider_safe_distance = SliderValue(SliderSafeMin, SliderSafeMax, sd)
        /\ fig_open = TRUE
        /\ printed = 0
        /\ raised = FALSE
        /\ frame = 0
        /\ last = NoStep

Chase == Update(ChaseFrames)

NextChase == Chase

(* The animation's timer keeps calling update() while the figure is open.   *)
SpecChase == InitChase /\ [][NextChase]_vars /\ WF_vars(Chase)

---------------------------------------------------------------------------
(* Properties.                                                              *)

Dot(u, v) == u[1] * v[1] + u[2] * v[2]
Cross(u, v) == u[1] * v[2] - u[2] * v[1]
Dist0(i) == NormSq(Sub(last.hunters0[i], last.prey0))
Hunters0 == 1..Len(last.hunters0)

(* Equal to within the rounding of the fixed-point arithmetic.              *)
Near(u, v) == (u[1] - v[1]) \in -2..2 /\ (u[2] - v[2]) \in -2..2

(* C1: after a step, the number of hunter rows, the number of hunter        *)
(* patches and num_agents all equal the slider value that step read.        *)
C1_PopulationMatchesRequest ==
    last.stepped =>
        /\ Len(hunters) = last.val
        /\ Len(hunter_patches) = last.val
        /\ num_agents = last.val

(* A second step that shrank the population to one hunter.                  *)
C1_Witness ==
    /\ last.stepped /\ frame = 2
    /\ last.resized /\ last.num_before > 1 /\ last.val = 1
    /\ Len(hunters) = 1

(* C2: "Prey caught!" is printed at most once; when the check has fired the *)
(* figure is closed, and with the figure closed no step moves an agent,     *)
(* prints or evaluates the check again.                                     *)
C2_CaughtOnce ==
    [][/\ printed' <= 1
       /\ (last'.fired => ~fig_open')
       /\ (~fig_open => /\ hunters' = hunters
                        /\ prey' = prey
                        /\ printed' = printed
                        /\ last' = last)]_vars

(* The check fired on the first frame, with frames left to run.             *)
C2_Witness ==
    /\ printed = 1 /\ ~fig_open /\ last.fired
    /\ frame = 1 /\ frame < MaxFrames

(* C3: the check fires iff some hunter is strictly closer to the prey than  *)
(* the slider's safe distance read in this step, on the positions held      *)
(* after the reinitialisation and before any move.                          *)
C3_CaughtIffBelowThreshold ==
    last.stepped =>
        /\ last.fired <=>
              \E i \in Hunters0 : Dist0(i) < last.slider_safe * last.slider_safe
        /\ safe_distance = last.slider_safe

(* The nearest hunter exactly at the safe distance, which the step read     *)
(* from a slider that had been moved: the check did not fire.               *)
C3_Witness ==
    /\ last.stepped /\ ~last.fired
    /\ last.safe_before # last.slider_safe
    /\ \E i \in Hunters0 : Dist0(i) = last.slider_safe * last.slider_safe
    /\ \A i \in Hunters0 : Dist0(i) >= last.slider_safe * last.slider_safe

(* C4: a step that resized the population starts its motion phase with the  *)
(* prey where the previous step left it.                                    *)
C4_PreyKeptAcrossResize ==
    (last.stepped /\ last.resized) => last.prey0 = last.prey_before

(* C5: no step raises, and after every step the population size is between  *)
(* 1 and 5.                                                                 *)
C5_SizeWithinRange ==
    /\ ~raised
    /\ last.stepped =>
          /\ num_agents \in SliderAgentsMin..SliderAgentsMax
          /\ Len(hunters) \in SliderAgentsMin..SliderAgentsMax

(* The constructor was asked for no hunters; the first step rebuilt the     *)
(* population with the slider's lowest value.                               *)
C5_Witness ==
    /\ last.stepped /\ last.resized
    /\ last.num_before = 0 /\ num_agents = SliderAgentsMin
    /\ Len(hunters) = SliderAgentsMin

(* The snapshot-then-apply reference: seek and repulsion of every hunter    *)
(* computed from the positions at the start of the step.                    *)
RECURSIVE SnapshotRepulsion(_, _, _)
SnapshotRepulsion(hs0, i, j) ==
    IF j > Len(hs0) THEN <<0, 0>>
    ELSE LET diff == Sub(hs0[i], hs0[j])
             rest == SnapshotRepulsion(hs0, i, j + 1)
         IN IF i # j /\ NormSq(diff) # 0
               /\ NormSq(diff) < NeighbourRadius * NeighbourRadius
            THEN Add(Scaled(diff, repulsion_strength), rest)
            ELSE rest

SnapshotMove(hs0, p) ==
    [i \in 1..Len(hs0) |->
        Add(Step(hs0[i], Sub(p, hs0[i]), hunter_speed),
            SnapshotRepulsion(hs0, i, 1))]

(* C6: the hunters a step leaves are those of the snapshot reference.       *)
C6_SnapshotRepulsion ==
    last.stepped =>
        \A i \in Hunters0 : Near(hunters[i], SnapshotMove(last.hunters0, prey)[i])

(* C7: two hunters that start a step at the same point, with no other       *)
(* hunter within the neighbour radius, move by their seek displacement      *)
(* only and end the step at the same point.                                 *)
C7_CoincidentNoRepulsion ==
    last.stepped =>
        \A i, j \in Hunters0 :
            (/\ i # j
             /\ last.hunters0[i] = last.hunters0[j]
             /\ \A k \in Hunters0 \ {i, j} :
                    NormSq(Sub(last.hunters0[k], last.hunters0[i]))
                        >= NeighbourRadius * NeighbourRadius)
            => /\ Near(hunters[i], Step(last.hunters0[i],
                                         Sub(prey, last.hunters0[i]), hunter_speed))
               /\ Near(hunters[i], hunters[j])

(* C8: the index the prey fled from is the first one at the minimum         *)
(* distance; the prey moved by prey_speed straight away from that hunter    *)
(* (to the nearest hundredth), or not at all when it sat on it; and the     *)
(* check fired iff that same distance was below the safe distance.          *)
C8_FleeFromFirstNearest ==
    last.stepped =>
        LET c == last.closest_idx
            away == Sub(last.prey0, last.hunters0[c])
            moved == Sub(prey, last.prey0)
        IN /\ c \in Hunters0
           /\ \A j \in Hunters0 : Dist0(c) <= Dist0(j)
           /\ \A j \in 1..(c - 1) : Dist0(j) > Dist0(c)
           /\ IF NormSq(away) = 0
              THEN moved = <<0, 0>>
              ELSE /\ Dot(moved, away) > 0
                   /\ Cross(moved, away) * Cross(moved, away) <= NormSq(away)
                   /\ (prey_speed - 1) * (prey_speed - 1) <= NormSq(moved)
                   /\ NormSq(moved) <= (prey_speed + 1) * (prey_speed + 1)
           /\ last.fired <=> Dist0(c) < last.slider_safe * last.slider_safe

(* Two hunters at different points tie for the minimum; the prey fled from  *)
(* the one with the lower index.                                            *)
C8_Witness ==
    /\ last.stepped
    /\ prey # last.prey0
    /\ \E j \in Hunters0 :
          /\ j > last.closest_idx
          /\ last.hunters0[j] # last.hunters0[last.closest_idx]
          /\ Dist0(j) = Dist0(last.closest_idx)

(* C9: the prey's heading points from its new position to where the         *)
(* nearest hunter stood at the start of the step.                           *)
C9_HeadingToOldPosition ==
    last.stepped =>
        Near(prey_patch.dir,
             CreateTriangle(prey,
                 Heading(Sub(last.hunters0[last.closest_idx], prey))).dir)

(* C10: while a lone hunter is at least the safe distance from the prey, a  *)
(* step brings it closer by hunter_speed - prey_speed, to within one        *)
(* hundredth of rounding (on squares: d' + k <= d iff 2 * k * d' <=         *)
(* d^2 - d'^2 - k^2); and the check eventually fires.                       *)
CloserBy(k, n2, n2_after) ==
    /\ n2 - n2_after - k * k >= 0
    /\ 4 * k * k * n2_after <= (n2 - n2_after - k * k) * (n2 - n2_after - k * k)

C10_LoneHunterCatches ==
    /\ [][(/\ num_agents = 1
           /\ NormSq(Sub(hunters[1], prey))
                  >= slider_safe_distance * slider_safe_distance)
          => LET gain == hunter_speed - prey_speed
                 n2 == NormSq(Sub(hunters[1], prey))
                 n2_after == NormSq(Sub(hunters'[1], prey'))
             IN /\ CloserBy(gain - 1, n2, n2_after)
                /\ ~CloserBy(gain + 1, n2, n2_after)]_vars
    /\ <>(printed = 1 /\ last.fired)

(* The check fired after a chase of more than ten frames.                   *)
C10_Witness ==
    /\ num_agents = 1 /\ last.fired /\ printed = 1
    /\ frame > 10

====
